---- MODULE Spec2Model ----
(***************************************************************************)
(* A model of the SQL agent MCP server (src/server.py): the connection     *)
(* provider singleton, the query classifier, the three introspection       *)
(* tools and the execution gateway (read path, guarded write path and the  *)
(* sample-data helper).  Every tool is an `async def` without an await     *)
(* that yields to another tool call, so a call runs to completion and is   *)
(* one atomic step of the model.  SQL statements are sequences of          *)
(* one-character strings, so that strip(), upper() and startswith() are    *)
(* computed on the text as the code computes them.                         *)
(***************************************************************************)
EXTENDS Integers, Sequences, FiniteSets, TLC

(***************************************************************************)
(* Text helpers: str.strip(), str.upper(), str.startswith(), str(int)      *)
(***************************************************************************)
LowerLetters ==
    <<"a", "b", "c", "d", "e", "f", "g", "h", "i", "j", "k", "l", "m", "n", "o", "p", "q", "r", "s", "t", "u", "v", "w", "x", "y", "z">>

UpperLetters ==
    <<"A", "B", "C", "D", "E", "F", "G", "H", "I", "J", "K", "L", "M", "N", "O", "P", "Q", "R", "S", "T", "U", "V", "W", "X", "Y", "Z">>

Whitespace == {" ", "\t", "\n", "\r"}

\* str.upper() on one character
UpperMap ==
    [c \in {LowerLetters[i] : i \in 1..Len(LowerLetters)} |->
        UpperLetters[CHOOSE i \in 1..Len(LowerLetters) : LowerLetters[i] = c]]

UpperChar(c) == IF c \in DOMAIN UpperMap THEN UpperMap[c] ELSE c

Upper(s) == [i \in 1..Len(s) |-> UpperChar(s[i])]

RECURSIVE LStrip(_)
LStrip(s) ==
    IF s # <<>> /\ Head(s) \in Whitespace THEN LStrip(Tail(s)) ELSE s

RECURSIVE RStrip(_)
RStrip(s) ==
    IF s # <<>> /\ s[Len(s)] \in Whitespace
    THEN RStrip(SubSeq(s, 1, Len(s) - 1))
    ELSE s

Strip(s) == RStrip(LStrip(s))

StartsWith(s, p) == Len(s) >= Len(p) /\ SubSeq(s, 1, Len(p)) = p

Digits == <<"0", "1", "2", "3", "4", "5", "6", "7", "8", "9">>

RECURSIVE NatToChars(_)
NatToChars(n) ==
    IF n < 10 THEN <<Digits[n + 1]>>
    ELSE NatToChars(n \div 10) \o <<Digits[(n % 10) + 1]>>

IntToChars(n) == IF n < 0 THEN <<"-">> \o NatToChars(0 - n) ELSE NatToChars(n)

(***************************************************************************)
(* Query classifier                                                        *)
(***************************************************************************)
dql_keywords ==
    << <<"S", "E", "L", "E", "C", "T">>,
       <<"W", "I", "T", "H">> >>

dml_keywords ==
    << <<"I", "N", "S", "E", "R", "T">>,
       <<"U", "P", "D", "A", "T", "E">>,
       <<"D", "E", "L", "E", "T", "E">>,
       <<"M", "E", "R", "G", "E">> >>

ddl_keywords ==
    << <<"C", "R", "E", "A", "T", "E">>,
       <<"A", "L", "T", "E", "R">>,
       <<"D", "R", "O", "P">>,
       <<"T", "R", "U", "N", "C", "A", "T", "E">>,
       <<"R", "E", "N", "A", "M", "E">> >>

dcl_keywords ==
    << <<"G", "R", "A", "N", "T">>,
       <<"R", "E", "V", "O", "K", "E">> >>

tcl_keywords ==
    << <<"C", "O", "M", "M", "I", "T">>,
       <<"R", "O", "L", "L", "B", "A", "C", "K">>,
       <<"S", "A", "V", "E", "P", "O", "I", "N", "T">> >>

StartsWithAny(s, keywords) ==
    \E i \in 1..Len(keywords) : StartsWith(s, keywords[i])

ClassifyUpper(sql_upper) ==
    IF StartsWithAny(sql_upper, dql_keywords) THEN "DQL"
    ELSE IF StartsWithAny(sql_upper, dml_keywords) THEN "DML"
    ELSE IF StartsWithAny(sql_upper, ddl_keywords) THEN "DDL"
    ELSE IF StartsWithAny(sql_upper, dcl_keywords) THEN "DCL"
    ELSE IF StartsWithAny(sql_upper, tcl_keywords) THEN "TCL"
    ELSE "UNKNOWN"

\* A classifier that forgets to trim the statement.
classify_no_strip(sql_query) == ClassifyUpper(Upper(sql_query))

classify_query_type(sql_query) == ClassifyUpper(Upper(Strip(sql_query)))

QueryTypes == {"DQL", "DML", "DDL", "DCL", "TCL", "UNKNOWN"}

WriteTypes == {"DML", "DDL", "DCL", "TCL"}


(***************************************************************************)
(* Statements a caller submits.                                            *)
(***************************************************************************)
\* a plain query of table t
SelectAll ==
    <<"S", "E", "L", "E", "C", "T", " ", "*", " ", "F", "R", "O",
      "M", " ", "t">>

\* the same query in lower case, with surrounding whitespace
SelectAllLower ==
    <<" ", " ", "s", "e", "l", "e", "c", "t", " ", "*", " ", "f",
      "r", "o", "m", " ", "t", "\n">>

\* a query of a table that does not exist
SelectMissing ==
    <<"S", "E", "L", "E", "C", "T", " ", "*", " ", "F", "R", "O",
      "M", " ", "n", "o", "s", "u", "c", "h">>

\* a data-modifying common table expression
WithDelete ==
    <<"W", "I", "T", "H", " ", "d", " ", "A", "S", " ", "(", "D",
      "E", "L", "E", "T", "E", " ", "F", "R", "O", "M", " ", "t",
      " ", "R", "E", "T", "U", "R", "N", "I", "N", "G", " ", "*",
      ")", " ", "S", "E", "L", "E", "C", "T", " ", "*", " ", "F",
      "R", "O", "M", " ", "d">>

\* inserts one row
InsertRow ==
    <<"I", "N", "S", "E", "R", "T", " ", "I", "N", "T", "O", " ",
      "t", " ", "D", "E", "F", "A", "U", "L", "T", " ", "V", "A",
      "L", "U", "E", "S">>

\* deletes every row of t
DeleteAll ==
    <<"D", "E", "L", "E", "T", "E", " ", "F", "R", "O", "M", " ",
      "t">>

\* the same deletion in lower case, with surrounding whitespace
DeleteAllLower ==
    <<"\t", "d", "e", "l", "e", "t", "e", " ", "f", "r", "o", "m",
      " ", "t", " ">>

\* a deletion with a syntax error
DeleteTypo ==
    <<"D", "E", "L", "E", "T", "E", " ", "F", "O", "R", "M", " ",
      "t">>

\* DDL: empties t
TruncateT ==
    <<"T", "R", "U", "N", "C", "A", "T", "E", " ", "t">>

\* DCL: grants a privilege
GrantT ==
    <<"G", "R", "A", "N", "T", " ", "S", "E", "L", "E", "C", "T",
      " ", "O", "N", " ", "t", " ", "T", "O", " ", "P", "U", "B",
      "L", "I", "C">>

\* TCL: ends the transaction the driver opened
CommitStmt ==
    <<"C", "O", "M", "M", "I", "T">>

\* no classified keyword in front
ExplainDelete ==
    <<"E", "X", "P", "L", "A", "I", "N", " ", "A", "N", "A", "L",
      "Y", "Z", "E", " ", "D", "E", "L", "E", "T", "E", " ", "F",
      "R", "O", "M", " ", "t">>

\* the empty statement
EmptyStmt ==
    <<>>

Statements ==
    {SelectAll,
     SelectAllLower,
     SelectMissing,
     WithDelete,
     InsertRow,
     DeleteAll,
     DeleteAllLower,
     DeleteTypo,
     TruncateT,
     GrantT,
     CommitStmt,
     ExplainDelete,
     EmptyStmt}

SamplePrefix ==
    <<"S", "E", "L", "E", "C", "T", " ", "*", " ", "F", "R", "O",
      "M", " ", "\"">>

SampleDot ==
    <<"\"", ".", "\"">>

SampleLimit ==
    <<"\"", " ", "L", "I", "M", "I", "T", " ">>

PublicSchema ==
    <<"p", "u", "b", "l", "i", "c">>

OtherSchema ==
    <<"h", "r">>

TableT ==
    <<"t">>

TableMissing ==
    <<"n", "o", "s", "u", "c", "h">>

(***************************************************************************)
(* Bounds                                                                  *)
(***************************************************************************)
\* most rows table t accepts (an INSERT beyond it violates a constraint)
MaxRows == 1

\* most rows table t holds when the rendering of results is checked
MaxResultRows == 102

\* most connections the database server accepts at a time
MaxConns == 1

\* largest value of the limit argument of get_sample_data
MaxLimit == 1

(***************************************************************************)
(* The database and the driver                                             *)
(***************************************************************************)
NoFault == "none"

\* the step of a call at which the driver raises, if the call gets there
DriverFaults == {NoFault, "connect", "execute", "fetch", "commit"}

SampleStatement(table_name, schema_name, limit) ==
    SamplePrefix \o schema_name \o SampleDot \o table_name
        \o SampleLimit \o IntToChars(limit)

SampleHead == SamplePrefix \o PublicSchema \o SampleDot \o TableT \o SampleLimit

Canonical(sql) == Upper(Strip(sql))

IsDigit(c) == \E d \in 1..Len(Digits) : Digits[d] = c

DigitValue(c) == (CHOOSE d \in 1..Len(Digits) : Digits[d] = c) - 1

RECURSIVE DigitsValue(_)
DigitsValue(s) ==
    IF s = <<>> THEN 0
    ELSE 10 * DigitsValue(SubSeq(s, 1, Len(s) - 1)) + DigitValue(s[Len(s)])

\* the LIMIT operand of a sample statement on public.t, -1 if it is not a
\* natural number
LimitOperand(sql) ==
    LET rest == SubSeq(sql, Len(SampleHead) + 1, Len(sql))
    IN  IF rest # <<>> /\ \A i \in 1..Len(rest) : IsDigit(rest[i])
        THEN DigitsValue(rest)
        ELSE -1

Min(a, b) == IF a <= b THEN a ELSE b

\* the statements the database understands, as it reads them
Understood ==
    [select_all |-> Canonical(SelectAll),
     with_delete |-> Canonical(WithDelete),
     insert_row |-> Canonical(InsertRow),
     delete_all |-> Canonical(DeleteAll),
     truncate |-> Canonical(TruncateT),
     grant |-> Canonical(GrantT),
     commit |-> Canonical(CommitStmt)]

\* What the database does with one statement inside the open transaction:
\* ok, the contents the transaction would commit, whether a result set
\* comes back, its number of rows, and cursor.rowcount.
DbExecute(sql, db) ==
    LET c == Canonical(sql)
        fail == [ok |-> FALSE, db |-> db, nrows |-> 0, rowcount |-> -1]
    IN  IF c = Understood.select_all
        THEN [ok |-> TRUE, db |-> db, nrows |-> db.rows, rowcount |-> db.rows]
        ELSE IF c = Understood.with_delete
        THEN [ok |-> TRUE, db |-> [db EXCEPT !.rows = 0],
              nrows |-> db.rows, rowcount |-> db.rows]
        ELSE IF StartsWith(sql, SampleHead) /\ LimitOperand(sql) >= 0
        THEN [ok |-> TRUE, db |-> db,
              nrows |-> Min(db.rows, LimitOperand(sql)),
              rowcount |-> Min(db.rows, LimitOperand(sql))]
        ELSE IF c = Understood.insert_row /\ db.rows < MaxRows
        THEN [ok |-> TRUE, db |-> [db EXCEPT !.rows = @ + 1],
              nrows |-> 0, rowcount |-> 1]
        ELSE IF c = Understood.delete_all
        THEN [ok |-> TRUE, db |-> [db EXCEPT !.rows = 0],
              nrows |-> 0, rowcount |-> db.rows]
        ELSE IF c = Understood.truncate
        THEN [ok |-> TRUE, db |-> [db EXCEPT !.rows = 0],
              nrows |-> 0, rowcount |-> -1]
        ELSE IF c = Understood.grant
        THEN [ok |-> TRUE, db |-> [db EXCEPT !.granted = TRUE],
              nrows |-> 0, rowcount |-> -1]
        ELSE IF c = Understood.commit
        THEN [ok |-> TRUE, db |-> db, nrows |-> 0, rowcount |-> -1]
        ELSE fail

(***************************************************************************)
(* Connection provider                                                     *)
(***************************************************************************)
RequiredVars == {"DB_HOST", "DB_NAME", "DB_USER", "DB_PASSWORD"}

None == "None"

ConfigComplete(env) == RequiredVars \subseteq env

MissingConfig == "Missing required database environment variables"

\* DatabaseConnection(): the instance is stored in the class before it is
\* initialised, so it stays stored when the initialisation raises.
DatabaseConnection(instance, engine, env) ==
    IF instance = None
    THEN IF ConfigComplete(env)
         THEN [instance |-> "instance", engine |-> "engine", exc |-> ""]
         ELSE [instance |-> "instance", engine |-> engine, exc |-> MissingConfig]
    ELSE [instance |-> instance, engine |-> engine, exc |-> ""]

(***************************************************************************)
(* Replies: the text a tool returns, kept as its parts                     *)
(***************************************************************************)
EmptyReply ==
    [head |-> "", qtype |-> "", msg |-> "", sql |-> <<>>, count |-> 0,
     header |-> FALSE, separator |-> FALSE, rows |-> <<>>, note |-> FALSE,
     more |-> 0]

ErrListSchemas == "Error listing schemas: "

ErrListTables == "Error listing tables: "

ErrDescribeTable == "Error describing table: "

ErrExecuting == "Error executing query: "

ErrSampleData == "Error getting sample data: "

ErrNotSelect ==
    "Error: This tool only executes SELECT queries. Query type detected: "

ErrUseSelect ==
    "Error: SELECT queries should use execute_select_query tool instead."

ErrUnknown ==
    "Error: Unable to classify query type. Please check your SQL syntax."

ConfirmationRequired == "CONFIRMATION_REQUIRED"

EmptyResult ==
    "Query executed successfully. No results returned (empty result set)."

QueryReturned == "Query returned "

QueryExecuted == "Query executed successfully. "

Text(head) == [EmptyReply EXCEPT !.head = head]

ErrorText(prefix, msg) == [EmptyReply EXCEPT !.head = prefix, !.msg = msg]

QueryError(msg, sql_query) ==
    [EmptyReply EXCEPT !.head = ErrExecuting, !.msg = msg, !.sql = sql_query]

\* messages of the exceptions the collaborators raise
NoInspection == "No inspection system is available for object of type NoneType"

ConnectFailed == "connection to server failed"

StatementFailed == "statement failed"

FetchFailed == "fetch failed"

CommitFailed == "commit failed"

NotCallable == "object is not callable"

(***************************************************************************)
(* psycopg2: connect, and the exit of `with conn`                          *)
(***************************************************************************)
ConnectFails(conns, drv) == drv = "connect" \/ conns >= MaxConns

Commit(pending, db, drv) ==
    IF drv = "commit"
    THEN [db |-> db, exc |-> CommitFailed, committed |-> FALSE]
    ELSE [db |-> pending, exc |-> "", committed |-> TRUE]

\* An exit that commits whatever the block did, also after an exception.
ConnExitAlwaysCommit(exc, pending, db, drv) ==
    [db |-> pending, exc |-> exc, committed |-> TRUE]

\* Leaving `with psycopg2.connect(...) as conn`: the transaction is committed
\* when the block ends without an exception and rolled back otherwise.  The
\* connection itself is not closed.
ConnExit(exc, pending, db, drv) ==
    IF exc # ""
    THEN [db |-> db, exc |-> exc, committed |-> FALSE]
    ELSE Commit(pending, db, drv)

(***************************************************************************)
(* Execution gateway                                                       *)
(***************************************************************************)
RowLimit == 100

\* A display cut one row short.
display_results_short(results) ==
    SubSeq(results, 1, Min(Len(results), RowLimit - 1))

display_results(results) == SubSeq(results, 1, Min(Len(results), RowLimit))

FormatResults(results) ==
    IF results = <<>>
    THEN Text(EmptyResult)
    ELSE [EmptyReply EXCEPT
            !.head = QueryReturned,
            !.count = Len(results),
            !.header = display_results(results) # <<>>,
            !.separator = display_results(results) # <<>>,
            !.rows = display_results(results),
            !.note = Len(results) > RowLimit,
            !.more = IF Len(results) > RowLimit
                     THEN Len(results) - RowLimit ELSE 0]

\* what a call did, besides the state it leaves
Outcome(instance, engine, db) ==
    [reply |-> EmptyReply, raised |-> FALSE, db |-> db,
     instance |-> instance, engine |-> engine, opened |-> 0,
     query_type |-> "", connects |-> 0, executes |-> 0, committed |-> FALSE]

\* A read path that lets every class through.
SelectGateOpen(query_type) == TRUE

SelectGate(query_type) == query_type = "DQL"

QueryExcept(exc, sql_query) ==
    [reply |-> QueryError(exc, sql_query), raised |-> FALSE]

execute_select_query(sql_query, instance, engine, env, db, conns, drv) ==
    LET query_type == classify_query_type(sql_query)
        base == [Outcome(instance, engine, db) EXCEPT !.query_type = query_type]
        dbc  == DatabaseConnection(instance, engine, env)
        held == [base EXCEPT !.instance = dbc.instance, !.engine = dbc.engine]
        ex   == DbExecute(sql_query, db)
        exc  == IF drv = "execute" \/ ~ex.ok THEN StatementFailed
                ELSE IF drv = "fetch" THEN FetchFailed
                ELSE ""
        exit == ConnExit(exc, IF drv = "execute" THEN db ELSE ex.db, db, drv)
        results == [i \in 1..ex.nrows |-> i]
    IN  IF ~SelectGate(query_type)
        THEN [base EXCEPT !.reply = [Text(ErrNotSelect) EXCEPT !.qtype = query_type]]
        ELSE IF dbc.exc # ""
        THEN [held EXCEPT !.reply = QueryExcept(dbc.exc, sql_query).reply,
                          !.raised = QueryExcept(dbc.exc, sql_query).raised]
        ELSE IF ConnectFails(conns, drv)
        THEN [held EXCEPT !.reply = QueryExcept(ConnectFailed, sql_query).reply,
                          !.raised = QueryExcept(ConnectFailed, sql_query).raised,
                          !.connects = 1]
        ELSE IF exit.exc # ""
        THEN [held EXCEPT !.reply = QueryExcept(exit.exc, sql_query).reply,
                          !.raised = QueryExcept(exit.exc, sql_query).raised,
                          !.connects = 1, !.opened = 1, !.executes = 1,
                          !.db = exit.db, !.committed = exit.committed]
        ELSE [held EXCEPT !.reply = FormatResults(results),
                          !.connects = 1, !.opened = 1, !.executes = 1,
                          !.db = exit.db, !.committed = exit.committed]

\* A write path that does not ask for the confirmation.
WriteGateUnconfirmed(query_type, confirmed) ==
    IF query_type = "DQL" THEN "use_select"
    ELSE IF query_type = "UNKNOWN" THEN "unknown"
    ELSE "execute"

WriteGate(query_type, confirmed) ==
    IF query_type = "DQL" THEN "use_select"
    ELSE IF query_type = "UNKNOWN" THEN "unknown"
    ELSE IF ~confirmed THEN "confirm"
    ELSE "execute"

ConfirmationText(query_type, sql_query) ==
    [EmptyReply EXCEPT !.head = ConfirmationRequired, !.qtype = query_type,
                       !.sql = sql_query]

execute_write_query(sql_query, confirmed, instance, engine, env, db, conns, drv) ==
    LET query_type == classify_query_type(sql_query)
        gate == WriteGate(query_type, confirmed)
        base == [Outcome(instance, engine, db) EXCEPT !.query_type = query_type]
        dbc  == DatabaseConnection(instance, engine, env)
        held == [base EXCEPT !.instance = dbc.instance, !.engine = dbc.engine]
        ex   == DbExecute(sql_query, db)
        done == IF drv = "execute" \/ ~ex.ok
                THEN [db |-> db, exc |-> StatementFailed, committed |-> FALSE]
                ELSE Commit(ex.db, db, drv)
        exit == ConnExit(done.exc, IF drv = "execute" THEN db ELSE ex.db,
                         done.db, drv)
    IN  IF gate = "use_select" THEN [base EXCEPT !.reply = Text(ErrUseSelect)]
        ELSE IF gate = "unknown" THEN [base EXCEPT !.reply = Text(ErrUnknown)]
        ELSE IF gate = "confirm"
        THEN [base EXCEPT !.reply = ConfirmationText(query_type, sql_query)]
        ELSE IF dbc.exc # ""
        THEN [held EXCEPT !.reply = QueryExcept(dbc.exc, sql_query).reply,
                          !.raised = QueryExcept(dbc.exc, sql_query).raised]
        ELSE IF ConnectFails(conns, drv)
        THEN [held EXCEPT !.reply = QueryExcept(ConnectFailed, sql_query).reply,
                          !.raised = QueryExcept(ConnectFailed, sql_query).raised,
                          !.connects = 1]
        ELSE IF exit.exc # ""
        THEN [held EXCEPT !.reply = QueryExcept(exit.exc, sql_query).reply,
                          !.raised = QueryExcept(exit.exc, sql_query).raised,
                          !.connects = 1, !.opened = 1, !.executes = 1,
                          !.db = exit.db, !.committed = exit.committed]
        ELSE [held EXCEPT !.reply = [Text(QueryExecuted) EXCEPT !.count = ex.rowcount],
                          !.connects = 1, !.opened = 1, !.executes = 1,
                          !.db = exit.db, !.committed = exit.committed]

\* The helper awaits the name execute_select_query, which the decorator has
\* rebound to what FastMCP returned: the function itself, or a tool object
\* that cannot be called, in which case the await raises inside the try.
get_sample_data(table_name, schema_name, limit, bound, instance, engine, env, db, conns, drv) ==
    LET sql_query == SampleStatement(table_name, schema_name, limit)
    IN  IF bound
        THEN execute_select_query(sql_query, instance, engine, env, db, conns, drv)
        ELSE [Outcome(instance, engine, db) EXCEPT
                !.reply = ErrorText(ErrSampleData, NotCallable)]

(***************************************************************************)
(* Introspection service                                                   *)
(***************************************************************************)
PgCatalog ==
    <<"p", "g", "_", "c", "a", "t", "a", "l", "o", "g">>

InformationSchema ==
    <<"i", "n", "f", "o", "r", "m", "a", "t", "i", "o", "n", "_",
      "s", "c", "h", "e", "m", "a">>

PgToast ==
    <<"p", "g", "_", "t", "o", "a", "s", "t">>

SystemSchemas == {PgCatalog, InformationSchema, PgToast}

\* what the catalog of the database reports
CatalogSchemas == <<InformationSchema, PublicSchema>>

CatalogTables(schema_name) ==
    IF schema_name = PublicSchema THEN <<TableT>> ELSE <<>>

CatalogColumns(table_name, schema_name) ==
    IF schema_name = PublicSchema /\ table_name = TableT THEN <<"id">> ELSE <<>>

NoUserSchemas == "No user schemas found in the database."

AvailableSchemas == "Available schemas in OMNI_STORE:"

NoTables == "No tables found in schema "

TablesIn == "Tables in schema "

TableNotFound == "Table not found: "

TableDescription == "Table: "

\* An except clause that lets the configuration error go.
IntrospectExceptPartial(prefix, exc) ==
    IF exc = MissingConfig
    THEN [reply |-> EmptyReply, raised |-> TRUE]
    ELSE [reply |-> ErrorText(prefix, exc), raised |-> FALSE]

IntrospectExcept(prefix, exc) ==
    [reply |-> ErrorText(prefix, exc), raised |-> FALSE]

\* db = DatabaseConnection(); inspect(db.get_engine()); one catalog query
Inspect(instance, engine, env, drv) ==
    LET dbc == DatabaseConnection(instance, engine, env)
    IN  [instance |-> dbc.instance, engine |-> dbc.engine,
         exc |-> IF dbc.exc # "" THEN dbc.exc
                 ELSE IF dbc.engine = None THEN NoInspection
                 ELSE IF drv = "connect" THEN ConnectFailed
                 ELSE IF drv = "execute" THEN StatementFailed
                 ELSE ""]

Introspection(prefix, answer, instance, engine, env, db, drv) ==
    LET insp == Inspect(instance, engine, env, drv)
        held == [Outcome(instance, engine, db) EXCEPT
                   !.instance = insp.instance, !.engine = insp.engine]
    IN  IF insp.exc # ""
        THEN [held EXCEPT !.reply = IntrospectExcept(prefix, insp.exc).reply,
                          !.raised = IntrospectExcept(prefix, insp.exc).raised]
        ELSE [held EXCEPT !.reply = answer]

list_schemas(instance, engine, env, db, drv) ==
    LET user_schemas == SelectSeq(CatalogSchemas, LAMBDA s : s \notin SystemSchemas)
    IN  Introspection(ErrListSchemas,
            IF user_schemas = <<>> THEN Text(NoUserSchemas)
            ELSE [Text(AvailableSchemas) EXCEPT !.rows = user_schemas],
            instance, engine, env, db, drv)

list_tables(schema_name, instance, engine, env, db, drv) ==
    LET tables == CatalogTables(schema_name)
    IN  Introspection(ErrListTables,
            IF tables = <<>> THEN [Text(NoTables) EXCEPT !.sql = schema_name]
            ELSE [Text(TablesIn) EXCEPT !.sql = schema_name, !.rows = tables],
            instance, engine, env, db, drv)

describe_table(table_name, schema_name, instance, engine, env, db, drv) ==
    LET columns == CatalogColumns(table_name, schema_name)
    IN  Introspection(ErrDescribeTable,
            IF columns = <<>>
            THEN [Text(TableNotFound) EXCEPT !.sql = schema_name \o <<".">> \o table_name]
            ELSE [Text(TableDescription) EXCEPT
                    !.sql = schema_name \o <<".">> \o table_name, !.rows = columns],
            instance, engine, env, db, drv)

(***************************************************************************)
(* State                                                                   *)
(***************************************************************************)
VARIABLES
    env,        \* the required configuration variables that are set
    instance,   \* DatabaseConnection._instance
    engine,     \* DatabaseConnection._engine, as get_engine() returns it
    db,         \* committed contents of the database
    conns,      \* raw connections that are open
    callable,   \* whether @mcp.tool() left execute_select_query a callable
    call        \* the tool call of the latest step: arguments, state seen, outcome

vars == <<env, instance, engine, db, conns, callable, call>>

\* most required variables that are missing at a time
MaxMissing == 1

Schemas == {PublicSchema, OtherSchema}

Tables == {TableT, TableMissing}

Limits == (-1)..MaxLimit

\* the statements of the runs that also exercise the provider and introspection
CoreStatements == {SelectAll, DeleteAllLower, ExplainDelete}

NoArgs ==
    [sql_query |-> <<>>, confirmed |-> FALSE, table_name |-> <<>>,
     schema_name |-> <<>>, limit |-> 0]

NoProbe == [word |-> 0, casing |-> "", lead |-> <<>>, tail |-> <<>>, trail |-> <<>>]

EmptyDb == [rows |-> 0, granted |-> FALSE]

NoCall ==
    [op |-> "none", args |-> NoArgs, drv |-> NoFault,
     pre |-> [env |-> {}, db |-> EmptyDb, instance |-> None, engine |-> None,
              conns |-> 0],
     out |-> Outcome(None, None, EmptyDb),
     probe |-> NoProbe]

Pre == [env |-> env, db |-> db, instance |-> instance, engine |-> engine,
        conns |-> conns]

Environments ==
    {e \in SUBSET RequiredVars : Cardinality(RequiredVars \ e) <= MaxMissing}

Init ==
    /\ env \in Environments
    /\ instance = None
    /\ engine = None
    /\ db \in [rows : 0..MaxRows, granted : {FALSE}]
    /\ conns = 0
    /\ callable \in BOOLEAN
    /\ call = NoCall

\* the tool registry: the handler a tool name is bound to
Tool(op, a, p, drv, bound) ==
    CASE op = "list_schemas" ->
           list_schemas(p.instance, p.engine, p.env, p.db, drv)
      [] op = "list_tables" ->
           list_tables(a.schema_name, p.instance, p.engine, p.env, p.db, drv)
      [] op = "describe_table" ->
           describe_table(a.table_name, a.schema_name,
                          p.instance, p.engine, p.env, p.db, drv)
      [] op = "execute_select_query" ->
           execute_select_query(a.sql_query, p.instance, p.engine, p.env, p.db,
                                p.conns, drv)
      [] op = "execute_write_query" ->
           execute_write_query(a.sql_query, a.confirmed, p.instance, p.engine,
                               p.env, p.db, p.conns, drv)
      [] op = "get_sample_data" ->
           get_sample_data(a.table_name, a.schema_name, a.limit, bound,
                           p.instance, p.engine, p.env, p.db, p.conns, drv)

\* The state a call leaves.  A connection the call opened is still open when
\* the call has returned, unless the interpreter finalises the unreferenced
\* connection object at once.
Return(op, a, drv, out) ==
    /\ instance' = out.instance
    /\ engine' = out.engine
    /\ db' = out.db
    /\ \E finalized \in (IF out.opened > 0 THEN BOOLEAN ELSE {TRUE}) :
          conns' = conns + (IF finalized THEN 0 ELSE out.opened)
    /\ call' = [op |-> op, args |-> a, drv |-> drv, pre |-> Pre,
                out |-> out, probe |-> NoProbe]

\* one tool call, from dispatch to the returned text
Call(op, a, drv) == Return(op, a, drv, Tool(op, a, Pre, drv, callable))

IntrospectionFaults == {NoFault, "connect", "execute"}

ListSchemas ==
    /\ \E drv \in IntrospectionFaults : Call("list_schemas", NoArgs, drv)
    /\ UNCHANGED <<env, callable>>

ListTables ==
    /\ \E schema_name \in Schemas, drv \in IntrospectionFaults :
          Call("list_tables", [NoArgs EXCEPT !.schema_name = schema_name], drv)
    /\ UNCHANGED <<env, callable>>

DescribeTable ==
    /\ \E table_name \in Tables, schema_name \in Schemas,
          drv \in IntrospectionFaults :
          Call("describe_table",
               [NoArgs EXCEPT !.table_name = table_name,
                              !.schema_name = schema_name],
               drv)
    /\ UNCHANGED <<env, callable>>

SelectCall(statements) ==
    \E sql_query \in statements, drv \in DriverFaults :
        Call("execute_select_query", [NoArgs EXCEPT !.sql_query = sql_query], drv)

WriteCall(statements) ==
    \E sql_query \in statements, confirmed \in BOOLEAN,
       drv \in DriverFaults \ {"fetch"} :
        Call("execute_write_query",
             [NoArgs EXCEPT !.sql_query = sql_query, !.confirmed = confirmed], drv)

SampleCall(tables, schemas, limits) ==
    \E table_name \in tables, schema_name \in schemas, limit \in limits,
       drv \in DriverFaults :
        Call("get_sample_data",
             [NoArgs EXCEPT !.table_name = table_name,
                            !.schema_name = schema_name, !.limit = limit],
             drv)

ExecuteSelectQuery ==
    /\ SelectCall(CoreStatements)
    /\ UNCHANGED <<env, callable>>

ExecuteWriteQuery ==
    /\ WriteCall(CoreStatements)
    /\ UNCHANGED <<env, callable>>

GetSampleData ==
    /\ SampleCall(Tables, {PublicSchema}, {1})
    /\ UNCHANGED <<env, callable>>

\* the interpreter finalises a connection object nothing refers to
Finalize ==
    /\ conns > 0
    /\ conns' = conns - 1
    /\ call' = NoCall
    /\ UNCHANGED <<env, instance, engine, db, callable>>

\* the process environment changes
SetEnv ==
    \E v \in RequiredVars \ env :
        /\ env' = env \cup {v}
        /\ call' = NoCall
        /\ UNCHANGED <<instance, engine, db, conns, callable>>

UnsetEnv ==
    \E v \in env :
        /\ Cardinality(RequiredVars \ env) < MaxMissing
        /\ env' = env \ {v}
        /\ call' = NoCall
        /\ UNCHANGED <<instance, engine, db, conns, callable>>

Next ==
    \/ ListSchemas
    \/ ListTables
    \/ DescribeTable
    \/ ExecuteSelectQuery
    \/ ExecuteWriteQuery
    \/ GetSampleData
    \/ Finalize
    \/ SetEnv
    \/ UnsetEnv

Spec == Init /\ [][Next]_vars

(***************************************************************************)
(* The execution gateway alone, configured, on every statement             *)
(***************************************************************************)
InitGateway ==
    /\ env = RequiredVars
    /\ instance = None
    /\ engine = None
    /\ db \in [rows : 0..MaxRows, granted : {FALSE}]
    /\ conns = 0
    /\ callable \in BOOLEAN
    /\ call = NoCall

GatewaySelect ==
    /\ SelectCall(Statements)
    /\ UNCHANGED <<env, callable>>

GatewayWrite ==
    /\ WriteCall(Statements)
    /\ UNCHANGED <<env, callable>>

GatewaySample ==
    /\ SampleCall(Tables, Schemas, Limits)
    /\ UNCHANGED <<env, callable>>

NextGateway ==
    \/ GatewaySelect
    \/ GatewayWrite
    \/ GatewaySample
    \/ Finalize

SpecGateway == InitGateway /\ [][NextGateway]_vars

(***************************************************************************)
(* The read path on tables of every size up to MaxResultRows               *)
(***************************************************************************)
InitRows ==
    /\ env = RequiredVars
    /\ instance = None
    /\ engine = None
    /\ db \in [rows : 0..MaxResultRows, granted : {FALSE}]
    /\ conns = 0
    /\ callable = TRUE
    /\ call = NoCall

RowsSelect ==
    /\ SelectCall({SelectAll, WithDelete})
    /\ UNCHANGED <<env, callable>>

RowsSample ==
    /\ SampleCall({TableT}, {PublicSchema}, {0, RowLimit, MaxResultRows})
    /\ UNCHANGED <<env, callable>>

NextRows ==
    \/ RowsSelect
    \/ RowsSample
    \/ Finalize

SpecRows == InitRows /\ [][NextRows]_vars
(***************************************************************************)
(* The classifier alone, on statements built from a leading word           *)
(***************************************************************************)
\* the class each leading word is to get; the last five are not keywords
LeadingWords ==
    << [word |-> <<"S", "E", "L", "E", "C", "T">>, class |-> "DQL"],
       [word |-> <<"W", "I", "T", "H">>, class |-> "DQL"],
       [word |-> <<"I", "N", "S", "E", "R", "T">>, class |-> "DML"],
       [word |-> <<"U", "P", "D", "A", "T", "E">>, class |-> "DML"],
       [word |-> <<"D", "E", "L", "E", "T", "E">>, class |-> "DML"],
       [word |-> <<"M", "E", "R", "G", "E">>, class |-> "DML"],
       [word |-> <<"C", "R", "E", "A", "T", "E">>, class |-> "DDL"],
       [word |-> <<"A", "L", "T", "E", "R">>, class |-> "DDL"],
       [word |-> <<"D", "R", "O", "P">>, class |-> "DDL"],
       [word |-> <<"T", "R", "U", "N", "C", "A", "T", "E">>, class |-> "DDL"],
       [word |-> <<"R", "E", "N", "A", "M", "E">>, class |-> "DDL"],
       [word |-> <<"G", "R", "A", "N", "T">>, class |-> "DCL"],
       [word |-> <<"R", "E", "V", "O", "K", "E">>, class |-> "DCL"],
       [word |-> <<"C", "O", "M", "M", "I", "T">>, class |-> "TCL"],
       [word |-> <<"R", "O", "L", "L", "B", "A", "C", "K">>, class |-> "TCL"],
       [word |-> <<"S", "A", "V", "E", "P", "O", "I", "N", "T">>, class |-> "TCL"],
       [word |-> <<"E", "X", "P", "L", "A", "I", "N">>, class |-> "UNKNOWN"],
       [word |-> <<"S", "E", "L", "E", "C">>, class |-> "UNKNOWN"],
       [word |-> <<"S", "E", "L", " ", "E", "C", "T">>, class |-> "UNKNOWN"],
       [word |-> <<"(", "S", "E", "L", "E", "C", "T">>, class |-> "UNKNOWN"],
       [word |-> <<>>, class |-> "UNKNOWN"] >>

Casings == {"upper", "lower", "mixed"}

Leads == {<<>>, <<" ">>, <<"\n", "\t">>}

Tails == {<<>>, <<" ", "1">>, <<"X">>}

Trails == {<<>>, <<" ", "\r", "\n">>}

LowerChar(c) ==
    IF \E i \in 1..Len(UpperLetters) : UpperLetters[i] = c
    THEN LowerLetters[CHOOSE i \in 1..Len(UpperLetters) : UpperLetters[i] = c]
    ELSE c

Cased(casing, s) ==
    [i \in 1..Len(s) |->
        IF casing = "lower" \/ (casing = "mixed" /\ i % 2 = 0)
        THEN LowerChar(s[i]) ELSE s[i]]

Probes ==
    [word : 1..Len(LeadingWords), casing : Casings, lead : Leads,
     tail : Tails, trail : Trails]

\* the statement a probe stands for, and the same statement in upper case
\* without the surrounding whitespace
ProbeBare(p) == LeadingWords[p.word].word \o p.tail

ProbeText(p) == p.lead \o Cased(p.casing, ProbeBare(p)) \o p.trail

InitClassify ==
    /\ env = RequiredVars
    /\ instance = None
    /\ engine = None
    /\ db = EmptyDb
    /\ conns = 0
    /\ callable = TRUE
    /\ call \in {[NoCall EXCEPT !.probe = p] : p \in Probes}

Classify ==
    /\ call.op = "none"
    /\ call' = [call EXCEPT
                  !.op = "classify",
                  !.args.sql_query = ProbeText(call.probe),
                  !.out.query_type = classify_query_type(ProbeText(call.probe))]
    /\ UNCHANGED <<env, instance, engine, db, conns, callable>>

NextClassify == Classify

SpecClassify == InitClassify /\ [][NextClassify]_vars
(***************************************************************************)
(* Properties                                                              *)
(***************************************************************************)
IntrospectionOps == {"list_schemas", "list_tables", "describe_table"}

ExecutionOps == {"execute_select_query", "execute_write_query"}

ToolOps == IntrospectionOps \cup ExecutionOps \cup {"get_sample_data"}

\* the statement the latest call handed to the read or write path
CallStatement ==
    IF call.op = "get_sample_data"
    THEN SampleStatement(call.args.table_name, call.args.schema_name, call.args.limit)
    ELSE call.args.sql_query

\* what the database would do with that statement on the contents the call saw
CallEffect == DbExecute(CallStatement, call.pre.db)

\* C1: the committed contents of the database change only in a call of
\* execute_write_query made with confirmed = TRUE, never in a call of
\* execute_select_query or get_sample_data.
C1_NoUnconfirmedMutation ==
    (call.op \in ToolOps /\ call.out.db # call.pre.db)
        => (call.op = "execute_write_query" /\ call.args.confirmed)

\* C2: a handle whose creation failed is not cached: an introspection call
\* made while a required variable is missing fails with the configuration
\* error, also after an earlier failure, and one made with the configuration
\* complete gets a handle with an engine.
C2_FailedHandleNotCached ==
    call.op \in IntrospectionOps =>
        IF ConfigComplete(call.pre.env)
        THEN call.out.engine # None /\ call.out.reply.msg # NoInspection
        ELSE call.pre.engine = None => call.out.reply.msg = MissingConfig

\* C3: in execute_select_query and execute_write_query the driver is reached
\* only for a statement the classifier admits to the path (DQL on the read
\* path; DML, DDL, DCL or TCL with confirmed = TRUE on the write path); a
\* statement of another class is answered with the error text of the path and
\* no connection is attempted.
C3_ClassifiedBeforeDriver ==
    call.op \in ExecutionOps =>
        LET query_type == classify_query_type(call.args.sql_query)
            reached == call.out.connects > 0 \/ call.out.executes > 0
                       \/ call.out.opened > 0
        IN  /\ call.out.query_type = query_type
            /\ call.op = "execute_select_query" =>
                 /\ reached => query_type = "DQL"
                 /\ query_type # "DQL" =>
                      /\ ~reached
                      /\ call.out.reply.head = ErrNotSelect
                      /\ call.out.reply.qtype = query_type
                      /\ call.out.db = call.pre.db
            /\ call.op = "execute_write_query" =>
                 /\ reached => (query_type \in WriteTypes /\ call.args.confirmed)
                 /\ query_type = "DQL" =>
                      (~reached /\ call.out.reply.head = ErrUseSelect
                       /\ call.out.db = call.pre.db)
                 /\ query_type = "UNKNOWN" =>
                      (~reached /\ call.out.reply.head = ErrUnknown
                       /\ call.out.db = call.pre.db)

C3_Witness ==
    /\ call.op = "execute_select_query"
    /\ call.args.sql_query = DeleteAllLower
    /\ call.pre.db.rows > 0
    /\ call.out.reply.head = ErrNotSelect
    /\ call.out.reply.qtype = "DML"
    /\ call.out.connects = 0

\* C4: execute_write_query without the confirmation, on a statement classified
\* DML, DDL, DCL or TCL, leaves the database as it is, attempts no connection,
\* and returns a text that begins with CONFIRMATION_REQUIRED and carries the
\* classification and the statement exactly as it was passed.
C4_UnconfirmedWriteIsInert ==
    (/\ call.op = "execute_write_query"
     /\ ~call.args.confirmed
     /\ classify_query_type(call.args.sql_query) \in WriteTypes)
        => /\ call.out.db = call.pre.db
           /\ db = call.pre.db
           /\ conns = call.pre.conns
           /\ call.out.connects = 0
           /\ call.out.opened = 0
           /\ call.out.executes = 0
           /\ ~call.out.committed
           /\ call.out.reply.head = ConfirmationRequired
           /\ call.out.reply.qtype = classify_query_type(call.args.sql_query)
           /\ call.out.reply.sql = call.args.sql_query

C4_Witness ==
    /\ call.op = "execute_write_query"
    /\ ~call.args.confirmed
    /\ call.args.sql_query = DeleteAllLower
    /\ call.drv = NoFault
    /\ call.pre.db.rows > 0
    /\ db.rows = call.pre.db.rows
    /\ call.out.reply.head = ConfirmationRequired
    /\ call.out.reply.qtype = "DML"

\* C5: every raw connection a call opened is closed when the call has
\* returned, so no raw connection is open between calls.
C5_ConnectionsReleased == conns = 0

\* C6: a confirmed execute_write_query on a DML, DDL, DCL or TCL statement
\* either executes the statement once, commits its effect and reports the
\* affected rows, or commits nothing of it and returns the error text with the
\* driver message and the statement; success is never reported for an
\* uncommitted statement nor an error for a committed one.
C6_ConfirmedWriteAllOrNothing ==
    (/\ call.op = "execute_write_query"
     /\ call.args.confirmed
     /\ classify_query_type(call.args.sql_query) \in WriteTypes)
        => \/ /\ call.out.reply.head = QueryExecuted
              /\ call.out.reply.count = CallEffect.rowcount
              /\ CallEffect.ok
              /\ call.out.executes = 1
              /\ call.out.committed
              /\ call.out.db = CallEffect.db
              /\ db = CallEffect.db
           \/ /\ call.out.reply.head = ErrExecuting
              /\ call.out.reply.msg # ""
              /\ call.out.reply.sql = call.args.sql_query
              /\ call.out.executes <= 1
              /\ ~call.out.committed
              /\ call.out.db = call.pre.db
              /\ db = call.pre.db

C6_Witness ==
    /\ call.op = "execute_write_query"
    /\ call.args.confirmed
    /\ call.args.sql_query = DeleteAllLower
    /\ call.drv = "commit"
    /\ call.pre.db.rows > 0
    /\ call.out.executes = 1
    /\ call.out.reply.head = ErrExecuting
    /\ call.out.reply.msg = CommitFailed
    /\ db = call.pre.db

\* the prefix of the error text of each tool
OwnPrefix(op) ==
    CASE op = "list_schemas" -> ErrListSchemas
      [] op = "list_tables" -> ErrListTables
      [] op = "describe_table" -> ErrDescribeTable
      [] op = "execute_select_query" -> ErrExecuting
      [] op = "execute_write_query" -> ErrExecuting
      [] op = "get_sample_data" -> ErrSampleData

\* C7 as stated: no tool call raises; each returns a text, and the text of a
\* failure (one that carries the message of an exception) begins with the
\* error prefix of the tool that was called.
C7_OwnPrefixOnEveryFailure ==
    call.op \in ToolOps =>
        /\ ~call.out.raised
        /\ call.out.reply.head # ""
        /\ call.out.reply.msg # "" => call.out.reply.head = OwnPrefix(call.op)

\* C7 as amended: no tool call raises; each returns a text, and the text of a
\* failure begins with the error prefix of the tool that was called, except
\* that a failure inside the read path to which get_sample_data delegates
\* carries the prefix of execute_select_query.
C7_NothingRaisesPastTheTool ==
    call.op \in ToolOps =>
        /\ ~call.out.raised
        /\ call.out.reply.head # ""
        /\ call.out.reply.msg # "" =>
             \/ call.out.reply.head = OwnPrefix(call.op)
             \/ /\ call.op = "get_sample_data"
                /\ call.out.reply.msg # NotCallable
                /\ call.out.reply.head = ErrExecuting
        /\ (call.op \in IntrospectionOps /\ call.pre.instance = None
            /\ ~ConfigComplete(call.pre.env)) =>
             call.out.reply = ErrorText(OwnPrefix(call.op), MissingConfig)
        /\ (call.op \in IntrospectionOps /\ call.pre.instance # None
            /\ call.pre.engine = None) =>
             call.out.reply = ErrorText(OwnPrefix(call.op), NoInspection)

C7_Witness ==
    /\ call.op = "list_tables"
    /\ call.pre.instance = None
    /\ ~ConfigComplete(call.pre.env)
    /\ ~call.out.raised
    /\ call.out.reply.head = ErrListTables
    /\ call.out.reply.msg = MissingConfig

C9_RowLimit ==
    (/\ call.op \in {"execute_select_query", "get_sample_data"}
     /\ classify_query_type(CallStatement) = "DQL"
     /\ call.out.committed)
        => LET n == CallEffect.nrows
               reply == call.out.reply
           IN  IF n = 0
               THEN reply = Text(EmptyResult)
               ELSE /\ reply.head = QueryReturned
                    /\ reply.count = n
                    /\ reply.header
                    /\ reply.separator
                    /\ Len(reply.rows) = Min(n, 100)
                    /\ \A i \in 1..Len(reply.rows) : reply.rows[i] = i
                    /\ reply.note <=> n > 100
                    /\ reply.note => reply.more = n - 100
                    /\ ~reply.note => reply.more = 0

C9_Witness ==
    /\ call.op = "execute_select_query"
    /\ call.out.committed
    /\ CallEffect.nrows = 101
    /\ Len(call.out.reply.rows) = 100
    /\ call.out.reply.note
    /\ call.out.reply.more = 1

\* what the same call answers in a process that has served no call before
FreshOutcome ==
    Tool(call.op, call.args,
         [call.pre EXCEPT !.instance = None, !.engine = None],
         call.drv, callable)

\* C10: the reply and the database effect of a call are those the same call,
\* with the same arguments, configuration, database contents and driver
\* behaviour, has in a process that served no earlier call.
C10_RepliesIgnoreHistory ==
    call.op \in ToolOps =>
        /\ call.out.reply = FreshOutcome.reply
        /\ call.out.db = FreshOutcome.db
====
